---------------------------- MODULE Spec2Model ----------------------------
(***************************************************************************)
(* Model of src/src/deprecated_contract_class.rs: the deprecated contract  *)
(* class schema, its flexible offset codec (number_or_string /             *)
(* usize_to_hex), the ABI tagged-union decoder, the EntryPointType enum    *)
(* and the CasmContractEntryPoint -> EntryPoint conversion.                *)
(*                                                                         *)
(* Every operation of the file is a pure function; each is an operator     *)
(* here, and the state machine applies the operators to inputs drawn from  *)
(* bounded sets.  A text is a sequence of one-character strings.           *)
(* Integer widths are scaled: u64 has U64Bits bits, and usize has U64Bits  *)
(* bits on a 64-bit target and U32Bits bits on a 32-bit target.            *)
(***************************************************************************)
EXTENDS Integers, Sequences, FiniteSets, TLC

VARIABLES
    target,   \* pointer width of the build, in bits: the width of usize
    pc,       \* position of the caller: "start", or the operation just run
    input,    \* the argument of the operation just run
    output,   \* the value the operation returned
    slotA,    \* a ContractClass value held by the caller
    slotB,    \* a second ContractClass value held by the caller
    wireA,    \* the serialised form of slotA
    wireB     \* the serialised form of slotB

vars == <<target, pc, input, output, slotA, slotB, wireA, wireB>>

(***************************************************************************)
(* Bounds.                                                                 *)
(***************************************************************************)
U64Bits == 10     \* scaled width of u64, and of usize on a 64-bit target
U32Bits == 6      \* scaled width of usize on a 32-bit target
MaxLen == 5       \* longest text handed to the hex parser
LitOver == 2      \* numeric literals run up to 2^U64Bits + LitOver
FeltBits == 8     \* scaled width of the selector identifier
MaxAbi == 1       \* longest abi array of a class payload

RECURSIVE Pow2(_)
Pow2(n) == IF n = 0 THEN 1 ELSE 2 * Pow2(n - 1)

Targets == {U32Bits, U64Bits}
UsizeMax(bits) == Pow2(bits) - 1
U64Max == Pow2(U64Bits) - 1

None == [none |-> TRUE]
Ok(v) == [ok |-> TRUE, val |-> v]
Err(e) == [ok |-> FALSE, err |-> e]

(***************************************************************************)
(* Texts.                                                                  *)
(***************************************************************************)
LowerHex == <<"0","1","2","3","4","5","6","7","8","9","a","b","c","d","e","f">>
UpperHex == <<"0","1","2","3","4","5","6","7","8","9","A","B","C","D","E","F">>

\* The characters the enumerated texts are made of: digits, a lower-case and
\* an upper-case hex letter, the prefix letter, the two signs.
Alphabet == {"0", "1", "a", "A", "x", "+", "-"}

TextsOfLen(n) == [1..n -> Alphabet]

Texts == UNION {TextsOfLen(n) : n \in 0..MaxLen}

StartsWith0x(s) == Len(s) >= 2 /\ s[1] = "0" /\ s[2] = "x"

\* char::to_digit(16): the value of a hex digit of either case, -1 otherwise.
to_digit(c) ==
    IF \E i \in 1..16 : LowerHex[i] = c
    THEN (CHOOSE i \in 1..16 : LowerHex[i] = c) - 1
    ELSE IF \E i \in 1..16 : UpperHex[i] = c
    THEN (CHOOSE i \in 1..16 : UpperHex[i] = c) - 1
    ELSE -1

\* str::trim_start_matches("0x"): the prefix is removed as often as it occurs.
RECURSIVE trim_start_matches(_)
trim_start_matches(s) ==
    IF StartsWith0x(s) THEN trim_start_matches(SubSeq(s, 3, Len(s))) ELSE s

\* The digit loop of usize::from_str_radix: checked_mul and checked_add per
\* character, the first failure ends the parse.
RECURSIVE parse_digits(_, _, _, _)
parse_digits(digits, radix, acc, bits) ==
    IF digits = <<>> THEN Ok(acc)
    ELSE IF to_digit(Head(digits)) < 0 \/ to_digit(Head(digits)) >= radix
    THEN Err("invalid digit found in string")
    ELSE IF acc * radix + to_digit(Head(digits)) > UsizeMax(bits)
    THEN Err("number too large to fit in target type")
    ELSE parse_digits(Tail(digits), radix, acc * radix + to_digit(Head(digits)), bits)

\* usize::from_str_radix(src, radix): an empty text fails, a lone sign fails,
\* a leading + is skipped, a leading - is no digit of an unsigned type.
from_str_radix(src, radix, bits) ==
    IF src = <<>> THEN Err("cannot parse integer from empty string")
    ELSE IF Len(src) = 1 /\ Head(src) \in {"+", "-"}
    THEN Err("invalid digit found in string")
    ELSE IF Head(src) = "+" THEN parse_digits(Tail(src), radix, 0, bits)
    ELSE parse_digits(src, radix, 0, bits)

\* The parser as it would be with radix 10 in place of 16.
hex_string_try_into_usize_radix10(hex_string, bits) ==
    from_str_radix(trim_start_matches(hex_string), 10, bits)

hex_string_try_into_usize(hex_string, bits) ==
    from_str_radix(trim_start_matches(hex_string), 16, bits)

\* format!("{:x}", value): lower-case base-16 digits, no leading zeros.
RECURSIVE fmt_lower_hex(_)
fmt_lower_hex(value) ==
    IF value < 16 THEN <<LowerHex[value + 1]>>
    ELSE fmt_lower_hex(value \div 16) \o <<LowerHex[(value % 16) + 1]>>

\* format!("{:X}", value): upper-case digits.
RECURSIVE fmt_upper_hex(_)
fmt_upper_hex(value) ==
    IF value < 16 THEN <<UpperHex[value + 1]>>
    ELSE fmt_upper_hex(value \div 16) \o <<UpperHex[(value % 16) + 1]>>

\* The encoder as it would be with {:#X} in place of {:#x}.
usize_to_hex_upper(value) == [kind |-> "string", s |-> <<"0", "x">> \o fmt_upper_hex(value)]

\* The encoder as it would be with {:x} in place of {:#x}.
usize_to_hex_no_prefix(value) == [kind |-> "string", s |-> fmt_lower_hex(value)]

\* usize_to_hex: serialize_str(format!("{:#x}", value)).
usize_to_hex(value) == [kind |-> "string", s |-> <<"0", "x">> \o fmt_lower_hex(value)]

(***************************************************************************)
(* JSON values handed to number_or_string.                                 *)
(***************************************************************************)
\* A numeric literal: its sign, the magnitude of its integer part, and
\* whether it carries a fraction.
NumLits ==
    [kind : {"number"}, neg : BOOLEAN, mag : 0..(U64Max + LitOver), frac : BOOLEAN]

OtherJson ==
    {[kind |-> "null"], [kind |-> "bool", b |-> TRUE], [kind |-> "bool", b |-> FALSE],
     [kind |-> "array"], [kind |-> "object"]}

\* Number::as_u64 on the number Value::deserialize built from the literal:
\* only a non-negative integer literal that fits u64 is held as an unsigned
\* integer; a negative one is held signed, and a fraction or an integer
\* beyond u64 is held as a float.
as_u64(number) ==
    IF ~number.neg /\ ~number.frac /\ number.mag <= U64Max
    THEN Ok(number.mag)
    ELSE None

\* `as usize`: the cast keeps the low bits.
as_usize(n, bits) == n % Pow2(bits)

number_or_string(value, bits) ==
    CASE value.kind = "number" ->
            IF as_u64(value) = None
            THEN Err("Cannot cast number to usize.")
            ELSE Ok(as_usize(as_u64(value).val, bits))
      [] value.kind = "string" -> hex_string_try_into_usize(value.s, bits)
      [] OTHER -> Err("Cannot cast value into usize.")

\* impl TryFrom<String> for EntryPointOffset
EntryPointOffset_try_from(value, bits) == hex_string_try_into_usize(value, bits)

(***************************************************************************)
(* EntryPointType.                                                         *)
(***************************************************************************)
Constructor == [variant |-> "Constructor"]
External == [variant |-> "External"]
L1Handler == [variant |-> "L1Handler"]

EntryPointTypes == {Constructor, External, L1Handler}

\* The texts offered to the decoder of EntryPointType: the three tags, and
\* other casings, the ABI tags and near misses.
TagTexts ==
    {"CONSTRUCTOR", "EXTERNAL", "L1_HANDLER", "constructor", "external",
     "l1_handler", "Constructor", "External", "L1Handler", "L1HANDLER",
     "EXTERNAL ", "", "function"}

\* The default as it would be with #[default] on the first variant.
EntryPointType_default_first == Constructor

\* #[default] is on External.
EntryPointType_default == External

\* Deserialize of the derive: the variant whose serde(rename) is the text.
EntryPointType_deserialize(text) ==
    CASE text = "CONSTRUCTOR" -> Ok(Constructor)
      [] text = "EXTERNAL" -> Ok(External)
      [] text = "L1_HANDLER" -> Ok(L1Handler)
      [] OTHER -> Err("unknown variant")

\* Serialize of the derive: the serde(rename) of the variant.
EntryPointType_serialize(v) ==
    CASE v = Constructor -> "CONSTRUCTOR"
      [] v = External -> "EXTERNAL"
      [] v = L1Handler -> "L1_HANDLER"

(***************************************************************************)
(* EntryPoint from a CasmContractEntryPoint.                               *)
(***************************************************************************)
FeltMax == Pow2(FeltBits) - 1

\* BigUint::to_str_radix(16): lower-case base-16 digits, no prefix.
to_str_radix(n) == fmt_lower_hex(n)

\* The identifier built from a base-16 text (crate::hash): it fails when the
\* text does not fit the identifier's width.
StarkFelt_try_from(text) ==
    IF ~from_str_radix(trim_start_matches(text), 16, FeltBits).ok
    THEN Err("OutOfRange")
    ELSE Ok([felt |-> from_str_radix(trim_start_matches(text), 16, FeltBits).val])

EntryPointSelector(felt) == [selector |-> felt]

\* The compiled entry points offered to the conversion.
CasmContractEntryPoints(bits) ==
    [selector : 0..(FeltMax + LitOver), offset : {0, 10, UsizeMax(bits)}]

\* The conversion as it would be with unwrap_or_default() in place of `?`.
EntryPoint_try_from_default(value) ==
    IF ~StarkFelt_try_from(to_str_radix(value.selector)).ok
    THEN Ok([selector |-> EntryPointSelector([felt |-> 0]), offset |-> value.offset])
    ELSE Ok([selector |-> EntryPointSelector(StarkFelt_try_from(to_str_radix(value.selector)).val),
             offset |-> value.offset])

\* impl TryFrom<CasmContractEntryPoint> for EntryPoint: `?` returns the error
\* of the identifier construction as it is.
EntryPoint_try_from(value) ==
    IF ~StarkFelt_try_from(to_str_radix(value.selector)).ok
    THEN Err(StarkFelt_try_from(to_str_radix(value.selector)).err)
    ELSE Ok([selector |-> EntryPointSelector(StarkFelt_try_from(to_str_radix(value.selector)).val),
             offset |-> value.offset])

(***************************************************************************)
(* JSON values of a class payload.  An object is a function from its keys  *)
(* to its values.                                                          *)
(***************************************************************************)
JNull == [kind |-> "null"]
JStr(s) == [kind |-> "string", s |-> s]
JNum(n) == [kind |-> "number", neg |-> FALSE, mag |-> n, frac |-> FALSE]
JArr(items) == [kind |-> "array", items |-> items]
JObj(fields) == [kind |-> "object", fields |-> fields]

Without(f, keys) == [k \in (DOMAIN f) \ keys |-> f[k]]

Some(v) == [some |-> v]

\* String::deserialize
String_deserialize(v) ==
    IF v.kind = "string" THEN Ok(v.s) ELSE Err("invalid type")

\* usize::deserialize: an unsigned integer that fits usize.
usize_deserialize(v, bits) ==
    IF v.kind # "number" THEN Err("invalid type")
    ELSE IF as_u64(v) = None \/ v.mag > UsizeMax(bits) THEN Err("invalid value")
    ELSE Ok(v.mag)

\* The elements of a JSON array.
Items(v) == IF v.kind = "array" THEN v.items ELSE <<>>

\* Vec<T>::deserialize, given what T::deserialize returns for each element:
\* the value must be an array and every element must decode.
Vec_deserialize(v, elems) ==
    IF v.kind # "array" THEN Err("invalid type")
    ELSE IF \E i \in DOMAIN elems : ~elems[i].ok THEN Err("invalid element")
    ELSE Ok([i \in DOMAIN elems |-> elems[i].val])

\* The field visitor of a derived struct without serde(deny_unknown_fields):
\* a key that is no field is skipped, a required field that is absent fails.
struct_fields(fields, required) ==
    IF ~(required \subseteq DOMAIN fields) THEN Err("missing field") ELSE Ok(fields)

(***************************************************************************)
(* The ABI entries.                                                        *)
(***************************************************************************)
\* TypedParameter (derive Deserialize)
TypedParameter_from_fields(fields) ==
    IF ~struct_fields(fields, {"name", "type"}).ok THEN Err("missing field")
    ELSE IF ~String_deserialize(fields["name"]).ok \/ ~String_deserialize(fields["type"]).ok
    THEN Err("invalid type")
    ELSE Ok([name |-> fields["name"].s, type |-> fields["type"].s])

TypedParameter_deserialize(v) ==
    IF v.kind # "object" THEN Err("invalid type") ELSE TypedParameter_from_fields(v.fields)

\* Vec<TypedParameter>::deserialize
TypedParameters_deserialize(v) ==
    Vec_deserialize(v, [i \in DOMAIN Items(v) |-> TypedParameter_deserialize(Items(v)[i])])

\* EventAbiEntry (derive Deserialize)
EventAbiEntry_deserialize(fields) ==
    IF ~struct_fields(fields, {"name", "keys", "data"}).ok THEN Err("missing field")
    ELSE LET keys == TypedParameters_deserialize(fields["keys"])
             data == TypedParameters_deserialize(fields["data"])
         IN  IF ~String_deserialize(fields["name"]).ok \/ ~keys.ok \/ ~data.ok
             THEN Err("invalid type")
             ELSE Ok([name |-> fields["name"].s, keys |-> keys.val, data |-> data.val])

\* Option<FunctionStateMutability>: null is None, "view" the one variant.
state_mutability_deserialize(v) ==
    IF v.kind = "null" THEN Ok(None)
    ELSE IF v.kind = "string" /\ v.s = "view" THEN Ok(Some("View"))
    ELSE Err("unknown variant")

\* FunctionAbiEntry (derive Deserialize); stateMutability has serde(default).
FunctionAbiEntry_deserialize(fields) ==
    IF ~struct_fields(fields, {"name", "inputs", "outputs"}).ok THEN Err("missing field")
    ELSE LET inputs == TypedParameters_deserialize(fields["inputs"])
             outputs == TypedParameters_deserialize(fields["outputs"])
         IN  IF ~String_deserialize(fields["name"]).ok \/ ~inputs.ok \/ ~outputs.ok
             THEN Err("invalid type")
             ELSE IF "stateMutability" \in DOMAIN fields
                     /\ ~state_mutability_deserialize(fields["stateMutability"]).ok
             THEN Err("unknown variant")
             ELSE Ok([name |-> fields["name"].s,
                      inputs |-> inputs.val,
                      outputs |-> outputs.val,
                      state_mutability |->
                          IF "stateMutability" \in DOMAIN fields
                          THEN state_mutability_deserialize(fields["stateMutability"]).val
                          ELSE None])

\* StructMember (derive Deserialize, param is serde(flatten)): the keys of the
\* object are collected, param takes name and type from them, offset is read,
\* and the rest is dropped.
StructMember_deserialize(v, bits) ==
    IF v.kind # "object" THEN Err("invalid type")
    ELSE IF ~struct_fields(v.fields, {"offset"}).ok THEN Err("missing field")
    ELSE IF ~usize_deserialize(v.fields["offset"], bits).ok THEN Err("invalid type")
    ELSE IF ~TypedParameter_from_fields(v.fields).ok THEN TypedParameter_from_fields(v.fields)
    ELSE Ok([param |-> TypedParameter_from_fields(v.fields).val,
             offset |-> usize_deserialize(v.fields["offset"], bits).val])

\* Vec<StructMember>::deserialize
StructMembers_deserialize(v, bits) ==
    Vec_deserialize(v, [i \in DOMAIN Items(v) |-> StructMember_deserialize(Items(v)[i], bits)])

\* StructAbiEntry (derive Deserialize)
StructAbiEntry_deserialize(fields, bits) ==
    IF ~struct_fields(fields, {"name", "size", "members"}).ok THEN Err("missing field")
    ELSE LET members == StructMembers_deserialize(fields["members"], bits)
         IN  IF \/ ~String_deserialize(fields["name"]).ok
                \/ ~usize_deserialize(fields["size"], bits).ok
                \/ ~members.ok
             THEN Err("invalid type")
             ELSE Ok([name |-> fields["name"].s,
                      size |-> usize_deserialize(fields["size"], bits).val,
                      members |-> members.val])

AbiTags == {"event", "function", "constructor", "l1_handler", "struct"}

\* The variant of ContractClassAbiEntry a tag names.
AbiVariant(tag) ==
    CASE tag = "event" -> "Event"
      [] tag = "function" -> "Function"
      [] tag = "constructor" -> "Constructor"
      [] tag = "l1_handler" -> "L1Handler"
      [] tag = "struct" -> "Struct"

\* ContractClassAbiEntry (derive Deserialize, serde(tag = "type")): the tag is
\* taken out of the object and the rest is handed to the Deserialize of the
\* type the newtype variant wraps.  serde(deny_unknown_fields) on the enum
\* reaches struct variants only, and the enum has none: the wrapped types
\* decide, and none of them carries the attribute.
ContractClassAbiEntry_deserialize(v, bits) ==
    IF v.kind # "object" THEN Err("invalid type")
    ELSE IF "type" \notin DOMAIN v.fields THEN Err("missing tag")
    ELSE IF v.fields["type"].kind # "string" \/ v.fields["type"].s \notin AbiTags
    THEN Err("unknown variant")
    ELSE LET tag == v.fields["type"].s
             content == Without(v.fields, {"type"})
             inner == CASE tag = "event" -> EventAbiEntry_deserialize(content)
                        [] tag = "struct" -> StructAbiEntry_deserialize(content, bits)
                        [] OTHER -> FunctionAbiEntry_deserialize(content)
         IN  IF inner.ok THEN Ok([variant |-> AbiVariant(tag), entry |-> inner.val])
             ELSE inner

\* ABI entries offered to the decoder.
TypedParameterJson == JObj(("name" :> JStr("x")) @@ ("type" :> JStr("felt")))
StructMemberJson ==
    JObj(("name" :> JStr("x")) @@ ("type" :> JStr("felt")) @@ ("offset" :> JNum(0)))

AbiEntryBase(tag) ==
    CASE tag = "event" ->
            ("type" :> JStr(tag)) @@ ("name" :> JStr("e")) @@
            ("keys" :> JArr(<<TypedParameterJson>>)) @@ ("data" :> JArr(<<>>))
      [] tag = "struct" ->
            ("type" :> JStr(tag)) @@ ("name" :> JStr("s")) @@ ("size" :> JNum(1)) @@
            ("members" :> JArr(<<StructMemberJson>>))
      [] OTHER ->
            ("type" :> JStr(tag)) @@ ("name" :> JStr("f")) @@
            ("inputs" :> JArr(<<TypedParameterJson>>)) @@ ("outputs" :> JArr(<<>>))

Foo == "foo" :> JStr("bar")

AbiEntryJsons ==
    {JObj(AbiEntryBase(tag)) : tag \in AbiTags \cup {"junk"}}
    \cup {JObj(AbiEntryBase(tag) @@ Foo) : tag \in AbiTags}
    \cup {JObj(Without(AbiEntryBase(tag), {"name"})) : tag \in AbiTags}
    \cup {JObj(Without(AbiEntryBase(tag), {"type"})) : tag \in {"event", "function", "struct"}}
    \cup {JObj(AbiEntryBase("function") @@ ("stateMutability" :> JStr(m))) : m \in {"view", "pure"}}
    \cup {JObj(("members" :> JArr(<<JObj(StructMemberJson.fields @@ Foo)>>))
               @@ AbiEntryBase("struct")),
          JObj(("size" :> JStr("1")) @@ AbiEntryBase("struct")),
          JStr("function")}

(***************************************************************************)
(* Program, EntryPoint and ContractClass.                                  *)
(***************************************************************************)
ProgramRequired ==
    {"builtins", "data", "debug_info", "hints", "identifiers", "main_scope", "prime",
     "reference_manager"}
ProgramDefaulted == {"attributes", "compiler_version"}
ProgramFields == ProgramRequired \cup ProgramDefaulted

\* Program (derive Deserialize): every field is a serde_json::Value kept as
\* it is; attributes and compiler_version have serde(default), Value::Null.
Program_deserialize(v) ==
    IF v.kind # "object" THEN Err("invalid type")
    ELSE IF ~struct_fields(v.fields, ProgramRequired).ok THEN Err("missing field")
    ELSE Ok([f \in ProgramFields |-> IF f \in DOMAIN v.fields THEN v.fields[f] ELSE JNull])

\* Program (derive Serialize): all ten fields.
Program_serialize(program) == JObj(program)

\* EntryPointSelector::deserialize (crate::core, crate::hash): the identifier
\* of a hex text.
EntryPointSelector_deserialize(v) ==
    IF v.kind # "string" THEN Err("invalid type")
    ELSE IF ~StarkFelt_try_from(v.s).ok THEN StarkFelt_try_from(v.s)
    ELSE Ok(EntryPointSelector(StarkFelt_try_from(v.s).val))

\* EntryPointSelector::serialize (crate::core, crate::hash): 0x and the
\* base-16 digits of the identifier.
EntryPointSelector_serialize(selector) ==
    JStr(<<"0", "x">> \o fmt_lower_hex(selector.selector.felt))

\* EntryPoint (derive Deserialize); the offset goes through number_or_string.
EntryPoint_deserialize(v, bits) ==
    IF v.kind # "object" THEN Err("invalid type")
    ELSE IF ~struct_fields(v.fields, {"selector", "offset"}).ok THEN Err("missing field")
    ELSE IF ~EntryPointSelector_deserialize(v.fields["selector"]).ok
    THEN EntryPointSelector_deserialize(v.fields["selector"])
    ELSE IF ~number_or_string(v.fields["offset"], bits).ok
    THEN number_or_string(v.fields["offset"], bits)
    ELSE Ok([selector |-> EntryPointSelector_deserialize(v.fields["selector"]).val,
             offset |-> number_or_string(v.fields["offset"], bits).val])

\* EntryPoint (derive Serialize); the offset goes through usize_to_hex.
EntryPoint_serialize(e) ==
    JObj(("selector" :> EntryPointSelector_serialize(e.selector))
         @@ ("offset" :> usize_to_hex(e.offset)))

\* Vec<EntryPoint>::deserialize
EntryPoints_deserialize(v, bits) ==
    Vec_deserialize(v, [i \in DOMAIN Items(v) |-> EntryPoint_deserialize(Items(v)[i], bits)])

\* HashMap<EntryPointType, Vec<EntryPoint>>::deserialize: the entries of the
\* map, each key through EntryPointType and each value through Vec<EntryPoint>.
entry_points_by_type_deserialize(v, bits) ==
    IF v.kind # "object" THEN Err("invalid type")
    ELSE IF \E k \in DOMAIN v.fields : ~EntryPointType_deserialize(k).ok
    THEN Err("unknown variant")
    ELSE LET values == [k \in DOMAIN v.fields |-> EntryPoints_deserialize(v.fields[k], bits)]
         IN  IF \E k \in DOMAIN values : ~values[k].ok THEN Err("invalid value")
             ELSE Ok([t \in {EntryPointType_deserialize(k).val : k \in DOMAIN values} |->
                         values[EntryPointType_serialize(t)].val])

\* deserialize_optional_contract_class_abi_entry_vector (crate::serde_utils):
\* Option<Vec<ContractClassAbiEntry>>, with every error turned into None.
deserialize_optional_contract_class_abi_entry_vector(v, bits) ==
    LET entries ==
            Vec_deserialize(v, [i \in DOMAIN Items(v) |->
                                   ContractClassAbiEntry_deserialize(Items(v)[i], bits)])
    IN  IF v.kind = "null" THEN None
        ELSE IF ~entries.ok THEN None
        ELSE Some(entries.val)

\* ContractClass (derive Deserialize): abi has serde(default) and the
\* deserialize_with above; program and entry_points_by_type are required and
\* their errors are returned.  The error carried is that of the field met
\* first in the input, which the model does not order: it keeps one message.
ContractClass_deserialize(v, bits) ==
    IF v.kind # "object" THEN Err("invalid type")
    ELSE IF ~struct_fields(v.fields, {"program", "entry_points_by_type"}).ok
    THEN Err("missing field")
    ELSE LET program == Program_deserialize(v.fields["program"])
             entry_points_by_type ==
                 entry_points_by_type_deserialize(v.fields["entry_points_by_type"], bits)
         IN  IF ~program.ok \/ ~entry_points_by_type.ok
             THEN Err("invalid contract class")
             ELSE Ok([abi |-> IF "abi" \in DOMAIN v.fields
                              THEN deserialize_optional_contract_class_abi_entry_vector(
                                       v.fields["abi"], bits)
                              ELSE None,
                      program |-> program.val,
                      entry_points_by_type |-> entry_points_by_type.val])

\* The orders in which a HashMap with these keys may be iterated: the order
\* follows from the hasher keys RandomState::new() gave the map.
IterationOrders(keys) ==
    {o \in [1..Cardinality(keys) -> keys] : \A k \in keys : \E i \in DOMAIN o : o[i] = k}

\* A ContractClass in memory: the derived fields, and the iteration order of
\* its HashMap.
WithHasher(class, order) == [class |-> class, order |-> order]

\* PartialEq of ContractClass: HashMap equality does not look at the order.
ContractClass_eq(a, b) == a.class = b.class

\* ContractClass (derive Serialize): the map is written in iteration order.
ContractClass_serialize(c) ==
    [abi |-> c.class.abi,
     program |-> Program_serialize(c.class.program),
     entry_points_by_type |->
        [i \in DOMAIN c.order |->
            <<EntryPointType_serialize(c.order[i]),
              [j \in DOMAIN c.class.entry_points_by_type[c.order[i]] |->
                  EntryPoint_serialize(c.class.entry_points_by_type[c.order[i]][j])]>>]]

\* Class payloads offered to the decoder.
Opaque == JStr("opaque")
ProgramBase == [f \in ProgramFields |-> Opaque]
ProgramJsons ==
    {JObj(ProgramBase), JObj(Without(ProgramBase, ProgramDefaulted)),
     JObj(Without(ProgramBase, {"data"})), JObj(ProgramBase @@ Foo), JStr("junk")}

EntryPointJson(offset) ==
    JObj(("selector" :> JStr(<<"0", "x", "1">>)) @@ ("offset" :> offset))

EntryPointListJsons ==
    {JArr(<<EntryPointJson(JNum(10)), EntryPointJson(JStr(<<"0", "x", "a">>))>>),
     JArr(<<EntryPointJson(JStr(<<"x">>))>>)}

EntryPointsByTypeJsons ==
    UNION {[keys -> EntryPointListJsons] :
              keys \in SUBSET {"CONSTRUCTOR", "EXTERNAL", "L1_HANDLER"}}
    \cup {"UNKNOWN" :> JArr(<<>>), ("UNKNOWN" :> JArr(<<>>)) @@ ("EXTERNAL" :> JArr(<<>>))}

ClassAbiEntryJsons ==
    {JObj(AbiEntryBase("function")), JObj(AbiEntryBase("struct")),
     JObj(AbiEntryBase("function") @@ Foo), JObj(AbiEntryBase("junk")),
     JObj(Without(AbiEntryBase("event"), {"name"}))}

AbiJsons ==
    {JNull, JStr("Junk")}
    \cup UNION {{JArr(items) : items \in [1..n -> ClassAbiEntryJsons]} : n \in 0..MaxAbi}

ContractClassJsons ==
    {JObj(("abi" :> a) @@ ("program" :> p) @@ ("entry_points_by_type" :> JObj(e))) :
        a \in AbiJsons, p \in ProgramJsons, e \in EntryPointsByTypeJsons}
    \cup {JObj(("program" :> p) @@ ("entry_points_by_type" :> JObj(e))) :
        p \in ProgramJsons, e \in EntryPointsByTypeJsons}
    \cup {JObj(("abi" :> a) @@ ("program" :> JObj(ProgramBase))) : a \in AbiJsons}

(***************************************************************************)
(* The state machine.                                                      *)
(***************************************************************************)
Init ==
    /\ target \in Targets
    /\ pc = "start"
    /\ input = None
    /\ output = None
    /\ slotA = None
    /\ slotB = None
    /\ wireA = None
    /\ wireB = None

\* EntryPointOffset is deserialised from a JSON number.
DeserializeNumber ==
    /\ pc = "start"
    /\ \E v \in NumLits :
        /\ input' = v
        /\ output' = number_or_string(v, target)
    /\ pc' = "number_or_string"
    /\ UNCHANGED <<target, slotA, slotB, wireA, wireB>>

\* EntryPointOffset is deserialised from a JSON string.
DeserializeString ==
    /\ pc = "start"
    /\ \E t \in Texts :
        /\ input' = [kind |-> "string", s |-> t]
        /\ output' = number_or_string([kind |-> "string", s |-> t], target)
    /\ pc' = "number_or_string"
    /\ UNCHANGED <<target, slotA, slotB, wireA, wireB>>

\* EntryPointOffset is deserialised from any other JSON value.
DeserializeOther ==
    /\ pc = "start"
    /\ \E v \in OtherJson :
        /\ input' = v
        /\ output' = number_or_string(v, target)
    /\ pc' = "number_or_string"
    /\ UNCHANGED <<target, slotA, slotB, wireA, wireB>>

\* EntryPointOffset::try_from(String)
TryFromString ==
    /\ pc = "start"
    /\ \E t \in Texts :
        /\ input' = t
        /\ output' = EntryPointOffset_try_from(t, target)
    /\ pc' = "try_from"
    /\ UNCHANGED <<target, slotA, slotB, wireA, wireB>>

\* EntryPointOffset(x) is serialised.
SerializeOffset ==
    /\ pc = "start"
    /\ \E x \in 0..UsizeMax(target) :
        /\ input' = x
        /\ output' = usize_to_hex(x)
    /\ pc' = "usize_to_hex"
    /\ UNCHANGED <<target, slotA, slotB, wireA, wireB>>

\* The string just serialised is deserialised again; input keeps the offset
\* that was serialised and wireA the string.
DeserializeSerialized ==
    /\ pc = "usize_to_hex"
    /\ wireA' = output
    /\ output' = number_or_string(output, target)
    /\ pc' = "round_trip"
    /\ UNCHANGED <<target, input, slotA, slotB, wireB>>

\* The offset just deserialised is serialised again; input keeps the JSON
\* value it was read from and slotA the offset.
SerializeDeserialized ==
    /\ pc \in {"number_or_string"}
    /\ output.ok
    /\ slotA' = output.val
    /\ output' = usize_to_hex(output.val)
    /\ pc' = "re_encoded"
    /\ UNCHANGED <<target, input, slotB, wireA, wireB>>

\* EntryPointType is deserialised from a JSON string.
DeserializeEntryPointType ==
    /\ pc = "start"
    /\ \E t \in TagTexts :
        /\ input' = t
        /\ output' = EntryPointType_deserialize(t)
    /\ pc' = "EntryPointType_deserialize"
    /\ UNCHANGED <<target, slotA, slotB, wireA, wireB>>

\* An EntryPointType is serialised.
SerializeEntryPointType ==
    /\ pc = "start"
    /\ \E v \in EntryPointTypes :
        /\ input' = v
        /\ output' = EntryPointType_serialize(v)
    /\ pc' = "EntryPointType_serialize"
    /\ UNCHANGED <<target, slotA, slotB, wireA, wireB>>

\* EntryPointType::default()
DefaultEntryPointType ==
    /\ pc = "start"
    /\ input' = None
    /\ output' = EntryPointType_default
    /\ pc' = "EntryPointType_default"
    /\ UNCHANGED <<target, slotA, slotB, wireA, wireB>>

\* EntryPoint::try_from(CasmContractEntryPoint)
ConvertEntryPoint ==
    /\ pc = "start"
    /\ \E e \in CasmContractEntryPoints(target) :
        /\ input' = e
        /\ output' = EntryPoint_try_from(e)
    /\ pc' = "EntryPoint_try_from"
    /\ UNCHANGED <<target, slotA, slotB, wireA, wireB>>

\* One ContractClassAbiEntry is deserialised.
DeserializeAbiEntry ==
    /\ pc = "start"
    /\ \E v \in AbiEntryJsons :
        /\ input' = v
        /\ output' = ContractClassAbiEntry_deserialize(v, target)
    /\ pc' = "ContractClassAbiEntry_deserialize"
    /\ UNCHANGED <<target, slotA, slotB, wireA, wireB>>

\* A ContractClass is deserialised; its HashMap gets its hasher.
DeserializeContractClass ==
    /\ pc = "start"
    /\ \E v \in ContractClassJsons :
        /\ input' = v
        /\ LET result == ContractClass_deserialize(v, target)
           IN  IF result.ok
               THEN \E order \in IterationOrders(DOMAIN result.val.entry_points_by_type) :
                        /\ slotA' = WithHasher(result.val, order)
                        /\ output' = Ok(slotA')
               ELSE /\ slotA' = None
                    /\ output' = result
    /\ pc' = "ContractClass_deserialize"
    /\ UNCHANGED <<target, slotB, wireA, wireB>>

\* The same payload is deserialised a second time, into a second value.
DeserializeContractClassAgain ==
    /\ pc = "ContractClass_deserialize"
    /\ output.ok
    /\ LET result == ContractClass_deserialize(input, target)
       IN  \E order \in IterationOrders(DOMAIN result.val.entry_points_by_type) :
               slotB' = WithHasher(result.val, order)
    /\ output' = Ok(slotB')
    /\ pc' = "ContractClass_deserialize_again"
    /\ UNCHANGED <<target, input, slotA, wireA, wireB>>

\* The first value is serialised.
SerializeContractClassA ==
    /\ pc \in {"ContractClass_deserialize_again", "ContractClass_serialize"}
    /\ wireA' = ContractClass_serialize(slotA)
    /\ output' = wireA'
    /\ pc' = "ContractClass_serialize"
    /\ UNCHANGED <<target, input, slotA, slotB, wireB>>

\* The second value is serialised.
SerializeContractClassB ==
    /\ pc \in {"ContractClass_deserialize_again", "ContractClass_serialize"}
    /\ wireB' = ContractClass_serialize(slotB)
    /\ output' = wireB'
    /\ pc' = "ContractClass_serialize"
    /\ UNCHANGED <<target, input, slotA, slotB, wireA>>

Next ==
    \/ DeserializeNumber
    \/ DeserializeString
    \/ DeserializeOther
    \/ TryFromString
    \/ SerializeOffset
    \/ DeserializeSerialized
    \/ SerializeDeserialized
    \/ DeserializeEntryPointType
    \/ SerializeEntryPointType
    \/ DefaultEntryPointType
    \/ ConvertEntryPoint
    \/ DeserializeAbiEntry
    \/ DeserializeContractClass
    \/ DeserializeContractClassAgain
    \/ SerializeContractClassA
    \/ SerializeContractClassB

Spec == Init /\ [][Next]_vars


(***************************************************************************)
(* What the specification says of a text: its grammar and the number it    *)
(* denotes.                                                                *)
(***************************************************************************)
LowerHexChars == {LowerHex[i] : i \in 1..16}
HexDigitChars == LowerHexChars \cup {UpperHex[i] : i \in 1..16}

DigitValue ==
    [c \in HexDigitChars |->
        IF c \in LowerHexChars
        THEN (CHOOSE i \in 1..16 : LowerHex[i] = c) - 1
        ELSE (CHOOSE i \in 1..16 : UpperHex[i] = c) - 1]

RECURSIVE HexValue(_)
HexValue(d) ==
    IF d = <<>> THEN 0
    ELSE HexValue(SubSeq(d, 1, Len(d) - 1)) * 16 + DigitValue[d[Len(d)]]

\* The text after one optional 0x prefix.
AfterPrefix(t) == IF StartsWith0x(t) THEN SubSeq(t, 3, Len(t)) ELSE t

\* An optional single 0x prefix followed by one or more hex digits.
WellFormedHex(t) ==
    /\ AfterPrefix(t) # <<>>
    /\ \A i \in 1..Len(AfterPrefix(t)) : AfterPrefix(t)[i] \in HexDigitChars

Denoted(t) == HexValue(AfterPrefix(t))

\* 0x followed by lower-case digits with no leading zero (0x0 for zero).
IsCanonicalText(t) ==
    /\ StartsWith0x(t)
    /\ Len(t) >= 3
    /\ \A i \in 3..Len(t) : t[i] \in LowerHexChars
    /\ (Len(t) > 3 => t[3] # "0")

IsRepresentableLiteral(v, bits) ==
    v.kind = "number" /\ ~v.neg /\ ~v.frac /\ v.mag <= UsizeMax(bits)

(***************************************************************************)
(* Claims.                                                                 *)
(***************************************************************************)
\* C1: every offset x of the usize width, 0 and the maximum included, that is
\* encoded by usize_to_hex and decoded again by number_or_string decodes
\* successfully to x.
C1_OffsetRoundTrip ==
    pc = "round_trip" =>
        /\ output.ok
        /\ output.val = input
        /\ wireA.kind = "string"

C1_Witness ==
    /\ pc = "round_trip"
    /\ input = UsizeMax(target)
    /\ output.ok
    /\ output.val = UsizeMax(target)

\* C2: a text is accepted by number_or_string and by TryFrom<String> exactly
\* when it is one optional 0x prefix followed by one or more hex digits whose
\* value fits usize, and then decodes to that value.
C2_HexGrammarExact ==
    /\ (pc = "number_or_string" /\ input.kind = "string") =>
         /\ output.ok <=> (WellFormedHex(input.s) /\ Denoted(input.s) <= UsizeMax(target))
         /\ output.ok => output.val = Denoted(input.s)
    /\ pc = "try_from" =>
         /\ output.ok <=> (WellFormedHex(input) /\ Denoted(input) <= UsizeMax(target))
         /\ output.ok => output.val = Denoted(input)

\* C3 as stated: every accepted hex text re-encodes to itself.
C3_AllHexInputsStable ==
    (pc = "re_encoded" /\ input.kind = "string") => output.s = input.s

\* C3 as amended: an accepted hex text re-encodes to itself exactly when it
\* is in canonical form (0x, lower-case digits, no leading zero).
C3_CanonicalInputsStable ==
    (pc = "re_encoded" /\ input.kind = "string") =>
        (output.s = input.s <=> IsCanonicalText(input.s))

C3_Witness ==
    /\ pc = "re_encoded"
    /\ input.kind = "string"
    /\ input.s = <<"0", "x", "1", "a">>
    /\ slotA = 26
    /\ output.s = <<"0", "x", "1", "a">>

\* C5: a negative number, a fractional number, a number beyond the usize
\* maximum, a boolean, null, an array and an object are all rejected by
\* number_or_string.
C5_RejectsOutsideEncodings ==
    (/\ pc = "number_or_string"
     /\ \/ input.kind \notin {"number", "string"}
        \/ (input.kind = "number" /\ ~IsRepresentableLiteral(input, target)))
    => ~output.ok

\* C7: a representable numeric literal x and every well-formed hex text that
\* denotes x decode to x, and the decoded value is encoded as 0x followed by
\* the lower-case base-16 digits of x without leading zeros.
C7_CanonicalOutput ==
    /\ (pc \in {"number_or_string", "re_encoded"} /\ IsRepresentableLiteral(input, target)) =>
         IF pc = "number_or_string" THEN output = Ok(input.mag) ELSE slotA = input.mag
    /\ (/\ pc \in {"number_or_string", "re_encoded"}
        /\ input.kind = "string"
        /\ WellFormedHex(input.s)
        /\ Denoted(input.s) <= UsizeMax(target)) =>
         IF pc = "number_or_string" THEN output = Ok(Denoted(input.s))
         ELSE slotA = Denoted(input.s)
    /\ pc = "re_encoded" =>
         /\ output.kind = "string"
         /\ IsCanonicalText(output.s)
         /\ Denoted(output.s) = slotA

C7_Witness ==
    /\ pc = "re_encoded"
    /\ input.kind = "number"
    /\ input.mag = 42
    /\ slotA = 42
    /\ output.s = <<"0", "x", "2", "a">>

\* C9: the conversion fails exactly when the identifier construction from the
\* base-16 text of the selector fails, with that error; otherwise the selector
\* is the identifier built from that text and the offset is the source offset.
C9_EntryPointConversion ==
    pc = "EntryPoint_try_from" =>
        /\ output.ok <=> StarkFelt_try_from(to_str_radix(input.selector)).ok
        /\ output.ok <=> input.selector <= FeltMax
        /\ ~output.ok => output.err = StarkFelt_try_from(to_str_radix(input.selector)).err
        /\ output.ok =>
            /\ output.val.selector =
                 EntryPointSelector(StarkFelt_try_from(to_str_radix(input.selector)).val)
            /\ output.val.offset = input.offset
        /\ input.selector = 255 =>
            /\ output.ok
            /\ output.val.selector = EntryPointSelector(StarkFelt_try_from(<<"f", "f">>).val)

C9_Witness ==
    /\ pc = "EntryPoint_try_from"
    /\ input.selector = 255
    /\ input.offset = 10
    /\ output.ok
    /\ output.val.offset = 10

\* C10: CONSTRUCTOR, EXTERNAL and L1_HANDLER decode to their variants, the
\* one decoded from EXTERNAL is the default, every other text fails, and each
\* variant is encoded as its upper-case tag.
C10_EntryPointTypeClosed ==
    /\ pc = "EntryPointType_deserialize" =>
        /\ input = "CONSTRUCTOR" => output = Ok(Constructor)
        /\ input = "EXTERNAL" => output = Ok(External)
        /\ input = "L1_HANDLER" => output = Ok(L1Handler)
        /\ input = "EXTERNAL" => output.val = EntryPointType_default
        /\ input \notin {"CONSTRUCTOR", "EXTERNAL", "L1_HANDLER"} => ~output.ok
    /\ pc = "EntryPointType_serialize" =>
        /\ input = Constructor => output = "CONSTRUCTOR"
        /\ input = External => output = "EXTERNAL"
        /\ input = L1Handler => output = "L1_HANDLER"
    /\ pc = "EntryPointType_default" => output = External

C10_Witness ==
    /\ pc = "EntryPointType_deserialize"
    /\ input = "external"
    /\ ~output.ok

\* A key of an ABI entry that its variant does not declare, at the top of the
\* entry or in a member of a struct entry.
DeclaredFields(tag) ==
    CASE tag = "event" -> {"type", "name", "keys", "data"}
      [] tag = "struct" -> {"type", "name", "size", "members"}
      [] OTHER -> {"type", "name", "inputs", "outputs", "stateMutability"}

HasKnownTag(v) ==
    /\ v.kind = "object"
    /\ "type" \in DOMAIN v.fields
    /\ v.fields["type"].kind = "string"
    /\ v.fields["type"].s \in AbiTags

HasUndeclaredField(v) ==
    /\ HasKnownTag(v)
    /\ \/ ~(DOMAIN v.fields \subseteq DeclaredFields(v.fields["type"].s))
       \/ /\ v.fields["type"].s = "struct"
          /\ "members" \in DOMAIN v.fields
          /\ v.fields["members"].kind = "array"
          /\ \E i \in 1..Len(v.fields["members"].items) :
                /\ v.fields["members"].items[i].kind = "object"
                /\ ~(DOMAIN v.fields["members"].items[i].fields
                        \subseteq {"name", "type", "offset"})

\* C4: an ABI entry with a known tag that carries a field its variant does not
\* declare, members of a struct entry included, fails to decode.
C4_StrictAbiEntry ==
    (pc = "ContractClassAbiEntry_deserialize" /\ HasUndeclaredField(input)) => ~output.ok

\* An abi value that is no sequence of ABI entries as the specification reads
\* them: another JSON kind, or an entry with an unknown or missing tag, a
\* missing field, a field of the wrong kind or an undeclared field.
AbiFailsToParse(a, bits) ==
    /\ a.kind # "null"
    /\ \/ a.kind # "array"
       \/ \E i \in 1..Len(a.items) :
            \/ ~ContractClassAbiEntry_deserialize(a.items[i], bits).ok
            \/ HasUndeclaredField(a.items[i])

RestDecodes(fields, bits) ==
    /\ {"program", "entry_points_by_type"} \subseteq DOMAIN fields
    /\ Program_deserialize(fields["program"]).ok
    /\ entry_points_by_type_deserialize(fields["entry_points_by_type"], bits).ok

\* C6: a class payload whose abi is present and fails to parse (wrong kind,
\* unknown tag, missing or extra field) decodes with abi = None and with
\* program and entry_points_by_type populated; an error in program or in
\* entry_points_by_type fails the decode whatever abi holds.
C6_AbiErrorsSwallowed ==
    pc = "ContractClass_deserialize" =>
        /\ ~RestDecodes(input.fields, target) => ~output.ok
        /\ (/\ RestDecodes(input.fields, target)
            /\ "abi" \in DOMAIN input.fields
            /\ AbiFailsToParse(input.fields["abi"], target)) =>
              /\ output.ok
              /\ output.val.class.abi = None
              /\ output.val.class.program = Program_deserialize(input.fields["program"]).val
              /\ output.val.class.entry_points_by_type =
                    entry_points_by_type_deserialize(
                        input.fields["entry_points_by_type"], target).val

\* C8: two equal ContractClass values, both decoded from the same payload,
\* serialise to the same wire form, the entry point types in the same order.
C8_SerializeDeterministic ==
    (/\ pc = "ContractClass_serialize"
     /\ wireA # None
     /\ wireB # None
     /\ ContractClass_eq(slotA, slotB))
    => wireA = wireB

=============================================================================
